---- MODULE Spec2Model ----
(***************************************************************************)
(* CalmViz stress API (stress_api.py): a FastAPI service with four         *)
(* endpoints, GET /, POST /predict, POST /chat and POST /suggest, over     *)
(* three artifacts loaded once at import and an API key read from the      *)
(* environment.                                                            *)
(*                                                                         *)
(* Handlers are coroutines on one event loop.  The only suspension point   *)
(* of a handler is `await request.json()`; everything after it, the        *)
(* blocking requests.post included, runs without another handler being     *)
(* scheduled.  A request is therefore modelled by two steps: Receive (the  *)
(* handler is entered and waits for its body) and the handler's run.       *)
(*                                                                         *)
(* Numbers are kept in tenths (7.5 is 75) so that float() of "7.5" and of  *)
(* 7 are both integers of the model.                                       *)
(***************************************************************************)
EXTENDS Integers, Sequences, FiniteSets, TLC

\* number of request slots that can be in flight at the same time
NumReq == 2

Slots == 1..NumReq

NONE == "<none>"

(***************************************************************************)
(* JSON values and request bodies                                          *)
(***************************************************************************)
Absent == [t |-> "absent", s |-> ""]
Null == [t |-> "null", s |-> ""]
Str(s) == [t |-> "str", s |-> s]
Num(s) == [t |-> "num", s |-> s]

Keys == {"gender", "sleep", "extra", "message", "activity", "budget", "lat", "lng", "town"}

EmptyFields == [k \in Keys |-> Absent]

\* a body that is not JSON at all, and JSON bodies that are not objects
BadBody == [kind |-> "bad", fields |-> EmptyFields]
NullBody == [kind |-> "null", fields |-> EmptyFields]
ListBody == [kind |-> "list", fields |-> EmptyFields]

ObjBody(f) == [kind |-> "obj", fields |-> [k \in Keys |-> IF k \in DOMAIN f THEN f[k] ELSE Absent]]

\* `key in d` for a dict
Has(data, k) == data.fields[k].t # "absent"

\* Python truthiness of d.get(k): a missing key, null, "" and 0 are falsy
Truthy(v) ==
    /\ v.t \in {"str", "num"}
    /\ v.s # ""
    /\ ~(v.t = "num" /\ v.s = "0")

\* str(v) as an f-string renders it
Format(v) == IF v.t \in {"str", "num"} THEN v.s ELSE "None"

(***************************************************************************)
(* Exceptions: a computation either yields a value or raises               *)
(***************************************************************************)
Ok(v) == [exc |-> NONE, msg |-> NONE, val |-> v]
Raise(cls, msg) == [exc |-> cls, msg |-> msg, val |-> 0]

\* await request.json()
RequestJson(body) ==
    IF body.kind = "bad"
    THEN [exc |-> "JSONDecodeError", msg |-> "Expecting value: line 1 column 1 (char 0)"]
    ELSE [exc |-> NONE, msg |-> NONE]

(***************************************************************************)
(* The artifacts                                                           *)
(***************************************************************************)
NaN == -1

NumText == [n0 |-> 0, n7 |-> 70, n7_5 |-> 75, n3_1 |-> 31, n101_7 |-> 1017, n100 |-> 1000]

TextKey(s) ==
    CASE s = "0" -> "n0"
      [] s = "7" -> "n7"
      [] s = "7.5" -> "n7_5"
      [] s = "3.1" -> "n3_1"
      [] s = "101.7" -> "n101_7"
      [] s = "100" -> "n100"
      [] OTHER -> NONE

\* float(raw_value)
Float(v) ==
    IF v.t = "num" THEN Ok(NumText[TextKey(v.s)])
    ELSE IF v.t = "str"
    THEN IF TextKey(v.s) # NONE THEN Ok(NumText[TextKey(v.s)])
         ELSE IF v.s = "nan" THEN Ok(NaN)
         ELSE Raise("ValueError", "could not convert string to float: '" \o v.s \o "'")
    ELSE Raise("TypeError", "float() argument must be a string or a real number, not 'NoneType'")

\* encoder.transform([raw_value])[0] of a fitted label encoder with the given
\* classes: the 0-based index of the class, ValueError for an unseen label
Transform(classes, v) ==
    IF v.t = "str" /\ \E i \in 1..Len(classes) : classes[i] = v.s
    THEN Ok(10 * ((CHOOSE i \in 1..Len(classes) : classes[i] = v.s) - 1))
    ELSE Raise("ValueError", "y contains previously unseen labels: " \o Format(v))

RECURSIVE Sum(_)
Sum(vec) == IF vec = <<>> THEN 0 ELSE Head(vec) + Sum(Tail(vec))

\* model.predict(input_array)[0]: the predictor is opaque; two fitted models
\* stand for it, one with the word labels of the table and one with numeric
\* class codes.  Both weigh the first column twice and refuse NaN input.
ModelPredict(m, vec) ==
    IF \E i \in 1..Len(vec) : vec[i] = NaN
    THEN Raise("ValueError", "Input contains NaN.")
    ELSE LET score == vec[1] + Sum(vec) IN
         IF m = "clf_words"
         THEN Ok(Str(IF score < 80 THEN "High" ELSE IF score < 150 THEN "Medium" ELSE "Low"))
         ELSE Ok(Num(IF score < 80 THEN "2" ELSE IF score < 150 THEN "1" ELSE "0"))

activities == [Low |-> "Listen to calming music",
               Medium |-> "Go for a walk",
               High |-> "Take deep breaths and meditate"]

\* variant of the lookup with the entries of "Low" and "High" exchanged
ActivitiesGetSwapped(prediction) ==
    IF prediction.t = "str" /\ prediction.s \in DOMAIN activities
    THEN activities[CASE prediction.s = "Low" -> "High"
                      [] prediction.s = "High" -> "Low"
                      [] OTHER -> prediction.s]
    ELSE "No suggestion available"

\* activities.get(prediction, "No suggestion available")
ActivitiesGet(prediction) ==
    IF prediction.t = "str" /\ prediction.s \in DOMAIN activities
    THEN activities[prediction.s]
    ELSE "No suggestion available"

(***************************************************************************)
(* Responses                                                               *)
(***************************************************************************)
NoDoc == [kind |-> NONE, has_choices |-> FALSE, n_choices |-> 0, has_content |-> FALSE,
          content |-> [t |-> "null", json |-> FALSE, obj |-> [name |-> NONE, plan |-> <<>>, breakdown |-> {}]]]

NoObj == [name |-> NONE, plan |-> <<>>, breakdown |-> {}]

\* kind "json": the handler returned a value, sent with status 200
\* kind "http_error": the handler raised HTTPException(status, detail)
\* kind "unhandled": another exception left the handler
NoResp == [kind |-> NONE, status |-> 0, error |-> NONE, detail |-> NONE,
           stress_level |-> NONE, recommendation |-> NONE, message |-> NONE,
           payload |-> NoDoc, result |-> NoObj]

ErrorResp(msg) == [NoResp EXCEPT !.kind = "json", !.status = 200, !.error = msg]

HTTPException(status, detail) ==
    [NoResp EXCEPT !.kind = "http_error", !.status = status, !.detail = detail]

Unhandled(msg) == [NoResp EXCEPT !.kind = "unhandled", !.status = 500, !.message = msg]

(***************************************************************************)
(* What a handler run leaves behind: the response, and a record of the     *)
(* calls it made to the model and to the provider                          *)
(***************************************************************************)
NoPrompt == [activity |-> NONE, budget |-> NONE, locationPart |-> NONE]

NoCall == [model |-> NONE, system |-> NONE, user |-> Absent, prompt |-> NoPrompt,
           auth |-> NONE, timeout |-> 0]

NoReply == [net |-> NONE, status |-> 0, json |-> FALSE, doc |-> NoDoc]

Outcome(resp) == [resp |-> resp, calls |-> 0, sent |-> NoCall, reply |-> NoReply,
                  model_calls |-> 0, model_input |-> <<>>]

(***************************************************************************)
(* POST /predict                                                           *)
(***************************************************************************)
\* the loop over top_features (lines 50-60), from index i on, with the values
\* collected so far; it ends, returns the missing-feature error or raises
RECURSIVE PredictLoop(_, _, _, _, _)
PredictLoop(features, encoders, data, i, input_values) ==
    IF i > Len(features)
    THEN [exit |-> "end", exc |-> NONE, msg |-> NONE, input_values |-> input_values]
    ELSE LET feature_name == features[i] IN
         IF data.kind = "null"
         THEN [exit |-> "raise", exc |-> "TypeError",
               msg |-> "argument of type 'NoneType' is not iterable", input_values |-> input_values]
         ELSE IF ~Has(data, feature_name)
         THEN [exit |-> "return", exc |-> NONE,
               msg |-> "Missing feature: " \o feature_name, input_values |-> input_values]
         ELSE LET raw_value == data.fields[feature_name]
                  conv == IF feature_name \in DOMAIN encoders
                          THEN Transform(encoders[feature_name], raw_value)
                          ELSE Float(raw_value)
              IN IF conv.exc # NONE
                 THEN [exit |-> "raise", exc |-> conv.exc, msg |-> conv.msg,
                       input_values |-> input_values]
                 ELSE PredictLoop(features, encoders, data, i + 1,
                                  Append(input_values, conv.val))

\* the body of predict's try block (lines 47-74): an Outcome, or the exception
\* that leaves the block
PredictTry(m, features, encoders, body) ==
    LET parsed == RequestJson(body) IN
    IF parsed.exc # NONE
    THEN [raised |-> TRUE, exc |-> parsed.exc, msg |-> parsed.msg, out |-> Outcome(NoResp)]
    ELSE LET loop == PredictLoop(features, encoders, body, 1, <<>>) IN
         IF loop.exit = "raise"
         THEN [raised |-> TRUE, exc |-> loop.exc, msg |-> loop.msg, out |-> Outcome(NoResp)]
         ELSE IF loop.exit = "return"
         THEN [raised |-> FALSE, exc |-> NONE, msg |-> NONE, out |-> Outcome(ErrorResp(loop.msg))]
         ELSE LET prediction == ModelPredict(m, loop.input_values)
                  called == [Outcome(NoResp) EXCEPT !.model_calls = 1,
                                                    !.model_input = loop.input_values]
              IN IF prediction.exc # NONE
                 THEN [raised |-> TRUE, exc |-> prediction.exc, msg |-> prediction.msg,
                       out |-> called]
                 ELSE [raised |-> FALSE, exc |-> NONE, msg |-> NONE,
                       out |-> [called EXCEPT
                                  !.resp = [NoResp EXCEPT
                                              !.kind = "json", !.status = 200,
                                              !.stress_level = prediction.val.s,
                                              !.recommendation = ActivitiesGet(prediction.val)]]]

\* variant of predict whose handler reads `except ValueError as e`: any
\* other exception leaves the handler
PredictHandlerNarrow(m, features, encoders, body) ==
    LET t == PredictTry(m, features, encoders, body) IN
    IF t.raised
    THEN IF t.exc = "ValueError"
         THEN [t.out EXCEPT !.resp = ErrorResp(t.msg)]
         ELSE [t.out EXCEPT !.resp = Unhandled(t.exc \o ": " \o t.msg)]
    ELSE t.out

\* predict as a whole: `except Exception as e: return {"error": str(e)}` (76-77)
PredictHandler(m, features, encoders, body) ==
    LET t == PredictTry(m, features, encoders, body) IN
    IF t.raised THEN [t.out EXCEPT !.resp = ErrorResp(t.msg)] ELSE t.out

(***************************************************************************)
(* The provider: what one requests.post to OpenRouter comes back with      *)
(***************************************************************************)
\* message.content of the first choice: a JSON text, a text that is not JSON,
\* or null
Content(t, json, obj) == [t |-> t, json |-> json, obj |-> obj]

NoContent == Content("null", FALSE, NoObj)

\* a parsed reply body; kind is the JSON type of the top-level value
Doc(kind, has_choices, n_choices, has_content, content) ==
    [kind |-> kind, has_choices |-> has_choices, n_choices |-> n_choices,
     has_content |-> has_content, content |-> content]

Reply(net, status, json, doc) == [net |-> net, status |-> status, json |-> json, doc |-> doc]

\* variant of the call that sends a second time after a network failure
PostRetry(reply) ==
    IF reply.net = "fail"
    THEN [calls |-> 2, exc |-> "ConnectionError", msg |-> "Connection aborted."]
    ELSE [calls |-> 1, exc |-> NONE, msg |-> NONE]

\* requests.post(...): one outbound call; a network failure raises
Post(reply) ==
    IF reply.net = "fail"
    THEN [calls |-> 1, exc |-> "ConnectionError", msg |-> "Connection aborted."]
    ELSE [calls |-> 1, exc |-> NONE, msg |-> NONE]

\* response.json(): requests.exceptions.JSONDecodeError for a body that is not
\* JSON (a RequestException and a json.JSONDecodeError at once)
ResponseJson(reply) ==
    IF reply.json THEN Ok(reply.doc)
    ELSE [exc |-> "requests.JSONDecodeError",
          msg |-> "Expecting value: line 1 column 1 (char 0)", val |-> NoDoc]

\* response.raise_for_status()
RaiseForStatus(reply) ==
    IF reply.status >= 400
    THEN [exc |-> "HTTPError", msg |-> "Client or server error for url"]
    ELSE [exc |-> NONE, msg |-> NONE]

(***************************************************************************)
(* POST /chat                                                              *)
(***************************************************************************)
Persona == "You are CalmViz, a friendly and empathetic stress-relief assistant."

\* variant of the lookup without the default: data.get(key)
GetNoDefault(data, k) == IF Has(data, k) THEN data.fields[k] ELSE Null

\* data.get(key, "")
GetOrEmpty(data, k) == IF Has(data, k) THEN data.fields[k] ELSE Str("")

\* data.get(key, None)
GetOrNone(data, k) == IF Has(data, k) THEN data.fields[k] ELSE Null

\* the body of chat's try block (lines 82-107)
ChatTry(key, body, reply) ==
    LET parsed == RequestJson(body) IN
    IF parsed.exc # NONE
    THEN [raised |-> TRUE, exc |-> parsed.exc, msg |-> parsed.msg, out |-> Outcome(NoResp)]
    ELSE IF body.kind # "obj"
    THEN [raised |-> TRUE, exc |-> "AttributeError",
          msg |-> "'" \o body.kind \o "' object has no attribute 'get'", out |-> Outcome(NoResp)]
    ELSE LET user_message == GetOrEmpty(body, "message")
             payload == [model |-> "openai/gpt-4o-mini", system |-> Persona,
                         user |-> user_message, prompt |-> NoPrompt,
                         auth |-> "Bearer " \o key, timeout |-> 0]
             post == Post(reply)
             called == [Outcome(NoResp) EXCEPT !.calls = post.calls, !.sent = payload,
                                               !.reply = reply]
         IN IF post.exc # NONE
            THEN [raised |-> TRUE, exc |-> post.exc, msg |-> post.msg, out |-> called]
            ELSE LET data == ResponseJson(reply) IN
                 IF data.exc # NONE
                 THEN [raised |-> TRUE, exc |-> data.exc, msg |-> data.msg, out |-> called]
                 ELSE [raised |-> FALSE, exc |-> NONE, msg |-> NONE,
                       out |-> [called EXCEPT
                                  !.resp = [NoResp EXCEPT !.kind = "json", !.status = 200,
                                                          !.payload = data.val]]]

\* chat as a whole: `except Exception as e: return {"error": str(e)}` (109-110)
ChatHandler(key, body, reply) ==
    LET t == ChatTry(key, body, reply) IN
    IF t.raised THEN [t.out EXCEPT !.resp = ErrorResp(t.msg)] ELSE t.out

(***************************************************************************)
(* POST /suggest                                                           *)
(***************************************************************************)
\* d.get(key, "") or ""
GetOrBlank(data, k) == IF Truthy(GetOrEmpty(data, k)) THEN GetOrEmpty(data, k) ELSE Str("")

\* variant of the parse that goes on with an empty object when the body is
\* not JSON
SuggestParseLenient(body) ==
    IF RequestJson(body).exc # NONE
    THEN [raised |-> FALSE, resp |-> NoResp, data |-> [kind |-> "obj", fields |-> EmptyFields]]
    ELSE [raised |-> FALSE, resp |-> NoResp, data |-> body]

\* lines 120-123: the body, or HTTPException(400) when it is not JSON
SuggestParse(body) ==
    IF RequestJson(body).exc # NONE
    THEN [raised |-> TRUE, resp |-> HTTPException(400, "Invalid JSON body"), data |-> body]
    ELSE [raised |-> FALSE, resp |-> NoResp, data |-> body]

\* lines 131-136
LocationPart(lat, lng, town) ==
    (IF Truthy(lat) /\ Truthy(lng)
     THEN "User location: latitude = " \o Format(lat) \o ", longitude = " \o Format(lng) \o ". "
     ELSE "")
    \o (IF Truthy(town) THEN "User town: " \o Format(town) \o "." ELSE "")

\* lines 125-136 and 249: the fields of the prompt that depend on the request
BuildPrompt(data) ==
    [activity |-> Format(GetOrBlank(data, "activity")),
     budget |-> Format(GetOrBlank(data, "budget")),
     locationPart |-> LocationPart(GetOrNone(data, "lat"), GetOrNone(data, "lng"),
                                   GetOrNone(data, "town"))]

\* str(e) of a starlette HTTPException
StrHTTPException(status, detail) ==
    (IF status = 500 THEN "500" ELSE "400") \o ": " \o detail

\* the body of suggest's second try block (lines 262-281)
SuggestTry(key, prompt, reply) ==
    LET payload == [model |-> "openai/gpt-5-pro",
                    system |-> "You are a helpful assistant that only outputs valid JSON.",
                    user |-> Absent, prompt |-> prompt,
                    auth |-> "Bearer " \o key, timeout |-> 30]
        post == Post(reply)
        called == [Outcome(NoResp) EXCEPT !.calls = post.calls, !.sent = payload,
                                          !.reply = reply]
        status == RaiseForStatus(reply)
        response_data == ResponseJson(reply)
        doc == response_data.val
        loaded == IF doc.content.t # "str"
                  THEN Raise("TypeError",
                             "the JSON object must be str, bytes or bytearray, not NoneType")
                  ELSE IF ~doc.content.json
                  THEN Raise("JSONDecodeError", "Expecting value: line 1 column 1 (char 0)")
                  ELSE Ok(doc.content.obj)
    IN IF post.exc # NONE
       THEN [raised |-> TRUE, exc |-> post.exc, msg |-> post.msg, out |-> called]
       ELSE IF status.exc # NONE
       THEN [raised |-> TRUE, exc |-> status.exc, msg |-> status.msg, out |-> called]
       ELSE IF response_data.exc # NONE
       THEN [raised |-> TRUE, exc |-> response_data.exc, msg |-> response_data.msg,
             out |-> called]
       ELSE IF doc.kind \notin {"obj", "list"}
       THEN [raised |-> TRUE, exc |-> "TypeError",
             msg |-> "argument of type 'int' is not iterable", out |-> called]
       ELSE IF doc.has_choices /\ doc.n_choices > 0
       THEN IF ~doc.has_content
            THEN [raised |-> TRUE, exc |-> "KeyError", msg |-> "'message'", out |-> called]
            ELSE IF loaded.exc # NONE
            THEN [raised |-> TRUE, exc |-> loaded.exc, msg |-> loaded.msg, out |-> called]
            ELSE [raised |-> FALSE, exc |-> NONE, msg |-> NONE,
                  out |-> [called EXCEPT
                             !.resp = [NoResp EXCEPT !.kind = "json", !.status = 200,
                                                     !.result = loaded.val]]]
       ELSE [raised |-> TRUE, exc |-> "HTTPException",
             msg |-> StrHTTPException(500, "No response from AI"), out |-> called]

\* the except clauses of the second try block (lines 283-288), in order
SuggestExcept(exc, msg) ==
    IF exc \in {"ConnectionError", "HTTPError", "requests.JSONDecodeError"}
    THEN HTTPException(500, "API request failed: " \o msg)
    ELSE IF exc = "JSONDecodeError"
    THEN HTTPException(500, "Invalid JSON response: " \o msg)
    ELSE HTTPException(500, "Error: " \o msg)

\* suggest as a whole (lines 113-288)
SuggestHandler(key, body, reply) ==
    LET p == SuggestParse(body) IN
    IF p.raised THEN Outcome(p.resp)
    ELSE IF p.data.kind # "obj"
    THEN Outcome(Unhandled("AttributeError: '" \o p.data.kind \o "' object has no attribute 'get'"))
    ELSE LET t == SuggestTry(key, BuildPrompt(p.data), reply) IN
         IF t.raised THEN [t.out EXCEPT !.resp = SuggestExcept(t.exc, t.msg)] ELSE t.out

(***************************************************************************)
(* GET /                                                                   *)
(***************************************************************************)
RootHandler == Outcome([NoResp EXCEPT !.kind = "json", !.status = 200,
                                      !.message = "CalmViz API is running"])

(***************************************************************************)
(* Inputs: request bodies and provider replies                             *)
(***************************************************************************)
NonObjects == {BadBody, NullBody, ListBody}

PredictBodies ==
    {ObjBody([gender |-> g, sleep |-> s, extra |-> e]) :
        g \in {Absent, Str("F"), Str("M"), Str("X")},
        s \in {Absent, Null, Num("7"), Str("7.5"), Str("abc"), Str("nan")},
        e \in {Absent, Str("x")}} \cup NonObjects

ChatBodies ==
    {ObjBody([message |-> m]) : m \in {Absent, Null, Str(""), Str("hi")}} \cup NonObjects

SuggestBodies ==
    {ObjBody([activity |-> a, budget |-> b, lat |-> la, lng |-> ln, town |-> t]) :
        a \in {Absent, Str("traveling")},
        b \in {Absent, Null, Str(""), Str("100")},
        la \in {Absent, Num("0"), Num("3.1")},
        ln \in {Absent, Num("101.7")},
        t \in {Absent, Str("Kuala Lumpur")}} \cup NonObjects

Bodies == [predict |-> PredictBodies, chat |-> ChatBodies, suggest |-> SuggestBodies]

\* assistant objects the provider may put in message.content
Breathing == [name |-> "Box Breathing", plan |-> <<>>, breakdown |-> {}]
Penang == [name |-> "Exploring Penang",
           plan |-> <<"Day 1: Arrival & Heritage Walk", "Day 2: Penang Hill">>,
           breakdown |-> {"Transport", "Accommodation", "Total"}]

Completion(content) == Reply("ok", 200, TRUE, Doc("obj", TRUE, 1, TRUE, content))

Replies ==
    {Reply("fail", 0, FALSE, NoDoc),
     Reply("ok", 502, FALSE, NoDoc),
     Reply("ok", 200, FALSE, NoDoc),
     Reply("ok", 401, TRUE, Doc("obj", FALSE, 0, FALSE, NoContent)),
     Reply("ok", 200, TRUE, Doc("num", FALSE, 0, FALSE, NoContent)),
     Reply("ok", 200, TRUE, Doc("list", FALSE, 0, FALSE, NoContent)),
     Reply("ok", 200, TRUE, Doc("obj", FALSE, 0, FALSE, NoContent)),
     Reply("ok", 200, TRUE, Doc("obj", TRUE, 0, FALSE, NoContent)),
     Reply("ok", 200, TRUE, Doc("obj", TRUE, 1, FALSE, NoContent)),
     Completion(Content("null", FALSE, NoObj)),
     Completion(Content("str", FALSE, NoObj)),
     Completion(Content("str", TRUE, Breathing)),
     Completion(Content("str", TRUE, Penang))}

\* the inputs of the specification with concurrent requests
CoreBodies ==
    [predict |-> {ObjBody([gender |-> Str("F"), sleep |-> Num("7")]),
                  ObjBody([gender |-> Str("F")])},
     chat |-> {ObjBody([message |-> Str("")])},
     suggest |-> {ObjBody([activity |-> Str("traveling")]), ListBody}]

CoreReplies == {Reply("fail", 0, FALSE, NoDoc), Completion(Content("str", TRUE, Penang))}

(***************************************************************************)
(* State                                                                   *)
(***************************************************************************)
VARIABLES model, top_features, top_feature_encoders, API_KEY, req

artifacts == <<model, top_features, top_feature_encoders, API_KEY>>

vars == <<model, top_features, top_feature_encoders, API_KEY, req>>

IdleReq == [pc |-> "idle", endpoint |-> NONE, body |-> NullBody, out |-> Outcome(NoResp)]

\* lines 29-34: joblib.load of the three artifacts and os.getenv of the key
Init ==
    /\ model \in {"clf_words", "clf_codes"}
    /\ top_features \in {<<"gender", "sleep">>, <<"sleep", "gender">>}
    /\ top_feature_encoders \in {[gender |-> <<"F", "M">>], [gender |-> <<"F", "M", "X">>]}
    /\ API_KEY \in {"sk-or-v1-test", "None"}
    /\ req = [r \in Slots |-> IdleReq]

(***************************************************************************)
(* Actions                                                                 *)
(***************************************************************************)
Finish(r, out) == req' = [req EXCEPT ![r].pc = "done", ![r].out = out]

\* GET /: root() has no suspension point
Root(r) ==
    /\ req[r].pc = "idle"
    /\ req' = [req EXCEPT ![r] = [pc |-> "done", endpoint |-> "root", body |-> NullBody,
                                  out |-> RootHandler]]
    /\ UNCHANGED artifacts

\* a POST arrives and its handler suspends in `await request.json()`
Receive(r, bodies) ==
    /\ req[r].pc = "idle"
    /\ \E ep \in DOMAIN bodies : \E body \in bodies[ep] :
          req' = [req EXCEPT ![r] = [pc |-> "reading", endpoint |-> ep, body |-> body,
                                     out |-> Outcome(NoResp)]]
    /\ UNCHANGED artifacts

\* variant of Predict that consumes the shared feature list while it runs
PredictConsuming(r) ==
    /\ req[r].pc = "reading"
    /\ req[r].endpoint = "predict"
    /\ Finish(r, PredictHandler(model, top_features, top_feature_encoders, req[r].body))
    /\ top_features' = Tail(top_features)
    /\ UNCHANGED <<model, top_feature_encoders, API_KEY>>

\* POST /predict after its body arrived (lines 47-77)
Predict(r) ==
    /\ req[r].pc = "reading"
    /\ req[r].endpoint = "predict"
    /\ Finish(r, PredictHandler(model, top_features, top_feature_encoders, req[r].body))
    /\ UNCHANGED artifacts

\* POST /chat after its body arrived (lines 82-110); the provider's reply is
\* any of `replies`
Chat(r, replies) ==
    /\ req[r].pc = "reading"
    /\ req[r].endpoint = "chat"
    /\ \E reply \in replies : Finish(r, ChatHandler(API_KEY, req[r].body, reply))
    /\ UNCHANGED artifacts

\* POST /suggest after its body arrived (lines 121-288)
Suggest(r, replies) ==
    /\ req[r].pc = "reading"
    /\ req[r].endpoint = "suggest"
    /\ \E reply \in replies : Finish(r, SuggestHandler(API_KEY, req[r].body, reply))
    /\ UNCHANGED artifacts

\* the framework sends the response; the slot is free for the next request
Respond(r) ==
    /\ req[r].pc = "done"
    /\ req' = [req EXCEPT ![r] = IdleReq]
    /\ UNCHANGED artifacts

\* concurrent requests on every slot
Next ==
    \/ \E r \in Slots : Root(r)
    \/ \E r \in Slots : Receive(r, CoreBodies)
    \/ \E r \in Slots : Predict(r)
    \/ \E r \in Slots : Chat(r, CoreReplies)
    \/ \E r \in Slots : Suggest(r, CoreReplies)
    \/ \E r \in Slots : Respond(r)

Spec == Init /\ [][Next]_vars

\* one request at a time, over every body and every provider reply
NextOne ==
    \/ Root(1)
    \/ Receive(1, Bodies)
    \/ Predict(1)
    \/ Chat(1, Replies)
    \/ Suggest(1, Replies)
    \/ Respond(1)

SpecOne == Init /\ [][NextOne]_vars

(***************************************************************************)
(* Properties                                                              *)
(***************************************************************************)
Done(r, ep) == req[r].pc = "done" /\ req[r].endpoint = ep

FeatureNames == {top_features[i] : i \in 1..Len(top_features)}

\* the feature-list names a body has no key for
Missing(body) == {f \in FeatureNames : ~Has(body, f)}

\* C1: a /predict body (a JSON object) that lacks a name of the feature list
\* is answered with the error "Missing feature: <name>" for a name it lacks,
\* whatever its other keys and values are.
C1_MissingFeatureNamed ==
    \A r \in Slots :
        (Done(r, "predict") /\ req[r].body.kind = "obj" /\ Missing(req[r].body) # {})
        => \E f \in Missing(req[r].body) :
              req[r].out.resp.error = "Missing feature: " \o f

\* the failures of a /predict request: body not JSON or not an object, a
\* missing feature, an unseen categorical value, a value that is no number,
\* a model that raises
PredictFailure(r) ==
    LET body == req[r].body IN
    \/ body.kind # "obj"
    \/ Missing(body) # {}
    \/ \E f \in FeatureNames :
          IF f \in DOMAIN top_feature_encoders
          THEN ~(body.fields[f].t = "str"
                 /\ \E i \in 1..Len(top_feature_encoders[f]) :
                       top_feature_encoders[f][i] = body.fields[f].s)
          ELSE body.fields[f] \notin {Num("7"), Str("7.5"), Str("nan")}
    \/ \E f \in FeatureNames : body.fields[f] = Str("nan")

\* the failures of a /chat request: body not JSON or not an object, the
\* provider unreachable, a provider reply that is not JSON
ChatFailure(r) ==
    \/ req[r].body.kind # "obj"
    \/ req[r].out.reply.net = "fail"
    \/ (req[r].out.reply.net = "ok" /\ ~req[r].out.reply.json)

\* C2: every /predict and /chat request is answered by a value the handler
\* returned (status 200), never by an escaped exception or an HTTP error, and
\* after a failure that value carries an `error` string.
C2_ErrorsSurfaceAs200 ==
    \A r \in Slots :
        /\ Done(r, "predict") =>
              /\ req[r].out.resp.kind = "json"
              /\ req[r].out.resp.status = 200
              /\ PredictFailure(r) => req[r].out.resp.error # NONE
        /\ Done(r, "chat") =>
              /\ req[r].out.resp.kind = "json"
              /\ req[r].out.resp.status = 200
              /\ ChatFailure(r) => req[r].out.resp.error # NONE

C2_Witness ==
    \E r \in Slots :
        /\ Done(r, "predict")
        /\ req[r].body.kind = "null"
        /\ req[r].out.resp.error = "argument of type 'NoneType' is not iterable"

\* C3: every /suggest request ends in a documented outcome: the parsed
\* assistant JSON (200), or an HTTP error 400 or 500 that carries a detail.
C3_SuggestOutcomesDocumented ==
    \A r \in Slots :
        Done(r, "suggest") =>
            \/ req[r].out.resp.kind = "json" /\ req[r].out.resp.status = 200
            \/ /\ req[r].out.resp.kind = "http_error"
               /\ req[r].out.resp.status \in {400, 500}
               /\ req[r].out.resp.detail # NONE

\* C4: a /suggest body that is not JSON is answered with HTTP 400 "Invalid
\* JSON body", and no prompt is built and no provider call is made for it.
C4_BadBodyIs400NoCall ==
    \A r \in Slots :
        (Done(r, "suggest") /\ req[r].body.kind = "bad") =>
            /\ req[r].out.resp = HTTPException(400, "Invalid JSON body")
            /\ req[r].out.calls = 0
            /\ req[r].out.sent = NoCall

C4_Witness ==
    \E r \in Slots :
        /\ Done(r, "suggest")
        /\ req[r].body.kind = "bad"
        /\ req[r].out.resp.status = 400

EmptyBudget(body) == body.fields["budget"] \in {Absent, Null, Str("")}

\* C5: when the budget of a /suggest request is empty, the object returned
\* has travel.plan = [] and travel.budget_breakdown = {}.
C5_EmptyBudgetNoTravelPlan ==
    \A r \in Slots :
        (Done(r, "suggest") /\ req[r].body.kind = "obj" /\ EmptyBudget(req[r].body)
            /\ req[r].out.resp.kind = "json")
        => /\ req[r].out.resp.result.plan = <<>>
           /\ req[r].out.resp.result.breakdown = {}

\* C6: /chat with an empty or absent message issues one provider call with
\* messages [persona, user ""], and a JSON reply is returned as it came,
\* whatever the provider's status.
C6_EmptyMessageStillCalls ==
    \A r \in Slots :
        (Done(r, "chat") /\ req[r].body.kind = "obj"
            /\ req[r].body.fields["message"] \in {Absent, Str("")})
        => /\ req[r].out.calls = 1
           /\ req[r].out.sent.system = Persona
           /\ req[r].out.sent.user = Str("")
           /\ (req[r].out.reply.net = "ok" /\ req[r].out.reply.json) =>
                 /\ req[r].out.resp.kind = "json"
                 /\ req[r].out.resp.error = NONE
                 /\ req[r].out.resp.payload = req[r].out.reply.doc

C6_Witness ==
    \E r \in Slots :
        /\ Done(r, "chat")
        /\ req[r].body.kind = "obj"
        /\ req[r].body.fields["message"] = Absent
        /\ req[r].out.reply.status = 401
        /\ req[r].out.resp.payload = Doc("obj", FALSE, 0, FALSE, NoContent)

\* C7: a request issues at most one provider call; GET / and /predict issue
\* none; a request whose call failed is answered with the error after that
\* one call.
C7_NoRetry ==
    \A r \in Slots :
        /\ req[r].out.calls <= 1
        /\ req[r].endpoint \in {"root", "predict"} => req[r].out.calls = 0
        /\ (req[r].pc = "done" /\ req[r].out.reply.net = "fail") =>
              /\ req[r].out.calls = 1
              /\ \/ req[r].out.resp.error # NONE
                 \/ req[r].out.resp.kind = "http_error" /\ req[r].out.resp.status = 500

C7_Witness ==
    \E r1, r2 \in Slots :
        /\ r1 # r2
        /\ Done(r1, "chat") /\ req[r1].out.reply.net = "fail" /\ req[r1].out.calls = 1
        /\ Done(r2, "suggest") /\ req[r2].out.reply.net = "fail" /\ req[r2].out.calls = 1

\* C8: no step of any request, successful or failing, changes the model,
\* the feature list, the encoder mapping or the API key.
C8_ArtifactsImmutable == [][artifacts' = artifacts]_vars

C8_Witness ==
    \E r1, r2 \in Slots :
        /\ r1 # r2
        /\ Done(r1, "predict") /\ req[r1].out.model_calls = 1
        /\ Done(r2, "suggest") /\ req[r2].out.resp.kind = "unhandled"

\* entry i of the vector a body gives: the encoder's index of the value when
\* the feature has an encoder, the number the value parses to otherwise
ExpectedEntry(f, body) ==
    IF f \in DOMAIN top_feature_encoders
    THEN 10 * ((CHOOSE i \in 1..Len(top_feature_encoders[f]) :
                   top_feature_encoders[f][i] = body.fields[f].s) - 1)
    ELSE IF body.fields[f].s = "7" THEN 70 ELSE 75

WithoutExtra(body) == [body EXCEPT !.fields["extra"] = Absent]

\* C9: a successful /predict calls the model once, on the vector with one
\* entry per feature-list name in feature-list order; it answers with the
\* label as a string and the table's recommendation for "Low", "Medium" and
\* "High", the default for any other label; extra keys change nothing.
C9_PredictVectorAndTable ==
    \A r \in Slots :
        (Done(r, "predict") /\ req[r].out.resp.error = NONE) =>
            LET out == req[r].out
                label == ModelPredict(model, out.model_input).val
            IN /\ out.model_calls = 1
               /\ Len(out.model_input) = Len(top_features)
               /\ \A i \in 1..Len(top_features) :
                     out.model_input[i] = ExpectedEntry(top_features[i], req[r].body)
               /\ out.resp.stress_level = label.s
               /\ out.resp.recommendation =
                     (CASE label = Str("Low") -> "Listen to calming music"
                        [] label = Str("Medium") -> "Go for a walk"
                        [] label = Str("High") -> "Take deep breaths and meditate"
                        [] OTHER -> "No suggestion available")
               /\ out.resp = PredictHandler(model, top_features, top_feature_encoders,
                                            WithoutExtra(req[r].body)).resp

C9_Witness ==
    \E r \in Slots :
        /\ Done(r, "predict")
        /\ top_features = <<"sleep", "gender">>
        /\ req[r].body.fields["extra"] # Absent
        /\ req[r].out.model_input = <<75, 10>>
        /\ req[r].out.resp.stress_level = "Low"
        /\ req[r].out.resp.recommendation = "Listen to calming music"

\* C10: a 2xx JSON object reply without `choices`, or with an empty list of
\* them, gives the client HTTP 500 with detail exactly "No response from AI".
C10_NoChoicesDetail ==
    \A r \in Slots :
        (Done(r, "suggest") /\ req[r].out.calls = 1
            /\ req[r].out.reply.net = "ok" /\ req[r].out.reply.status = 200
            /\ req[r].out.reply.json /\ req[r].out.reply.doc.kind = "obj"
            /\ (~req[r].out.reply.doc.has_choices \/ req[r].out.reply.doc.n_choices = 0))
        => req[r].out.resp = HTTPException(500, "No response from AI")

====
